---- MODULE Spec2Model ----
(***************************************************************************)
(* Model of the retrieval-augmented answer pipeline of                     *)
(* src/app/api/v1/main/route.ts (the GET handler and its five stages) and  *)
(* of the arXiv response processing of src/unnamed/part_000.               *)
(*                                                                         *)
(* Every await of the handler is a point where the invocation is          *)
(* suspended; the code between two awaits is one action.  Spec is one      *)
(* invocation of GET with every shape of input; SpecConcurrent is two      *)
(* invocations that run concurrently over the one shared vector index;     *)
(* SpecAnomalies is one invocation whose fetched documents can lack a      *)
(* field; SpecFair is one invocation whose pending calls all settle;       *)
(* SpecClient is the ResearchSearch component that calls the handler.      *)
(***************************************************************************)
EXTENDS Integers, Sequences, FiniteSets, TLC

(***************************************************************************)
(* Bounds of the model.                                                    *)
(***************************************************************************)
\* longest document list the metadata API returns in one response
MaxPapers == 2
\* number of distinct vectors the embedding collaborator can return
NumEmbeddings == 2
\* most matches of one query response that lack metadata or score
MaxMalformed == 1
\* records the index holds from earlier runs when it is not empty
NumOldRecords == 4

\* concurrent invocations of GET
Invocations == {"r1", "r2"}
\* texts the generation collaborator can return for a prompt of each kind
GeneratedTexts(kind) ==
    CASE kind = "keywords" -> {"all:\"term1\" OR all:\"term2\""}
      [] kind = "noResults" -> {"general answer"}
      [] kind = "grounded" -> {"grounded answer"}
\* values of the 'query' search parameter (Null: parameter absent)
Null == [tag |-> "null"]
QueryParams == {Null, [tag |-> "string", val |-> "q"]}
Embeddings == 1..NumEmbeddings

(***************************************************************************)
(* JavaScript values.  A value whose shape the code inspects at run time   *)
(* (Array.isArray, truthiness) carries its shape in a tag.                 *)
(***************************************************************************)
Undefined == [tag |-> "undefined"]
Obj(v) == [tag |-> "object", val |-> v]
Arr(s) == [tag |-> "array", val |-> s]
Str(s) == [tag |-> "string", val |-> s]
Num(n) == [tag |-> "number", val |-> n]

\* Array.isArray(x)
IsArray(x) == x.tag = "array"
\* the truthiness of x as tested by !x : undefined, null and "" are falsy
Truthy(x) == /\ x.tag # "undefined"
             /\ x.tag # "null"
             /\ ~(x.tag = "string" /\ x.val = "")

\* s.join(sep) for a sequence of strings
RECURSIVE Join(_, _)
Join(s, sep) == IF Len(s) = 0 THEN ""
                ELSE IF Len(s) = 1 THEN s[1]
                ELSE s[1] \o sep \o Join(Tail(s), sep)

\* s.map(f)
Map(s, f(_)) == [k \in 1..Len(s) |-> f(s[k])]

(***************************************************************************)
(* The documents of the metadata API (interface ArxivPaper).  author and   *)
(* category are delivered as a single object or as an array.               *)
(***************************************************************************)
Author(n) == [name |-> n]
Category(t) == [attr |-> [term |-> t]]

P1 == [id |-> "p1", title |-> "T1", summary |-> "S1", published |-> "d1",
       link |-> [attr |-> [href |-> "u1"]],
       author |-> Obj(Author("A")),
       category |-> Obj(Category("c1"))]
P2 == [id |-> "p2", title |-> "T2", summary |-> "S2", published |-> "d2",
       link |-> [attr |-> [href |-> "u2"]],
       author |-> Arr(<<Author("A")>>),
       category |-> Arr(<<Category("c1"), Category("c2")>>)]
P3 == [id |-> "p3", title |-> "T3", summary |-> "S3", published |-> "d3",
       link |-> [attr |-> [href |-> "u3"]],
       author |-> Arr(<<Author("A"), Author("B")>>),
       category |-> Arr(<<Category("c1")>>)]
ArxivPaper == {P1, P2, P3}

\* documents whose entry lacks the category element or the author element:
\* xml2js leaves the property undefined
P4 == [id |-> "p4", title |-> "T4", summary |-> "S4", published |-> "d4",
       link |-> [attr |-> [href |-> "u4"]],
       author |-> Obj(Author("A")),
       category |-> Undefined]
P5 == [id |-> "p5", title |-> "T5", summary |-> "S5", published |-> "d5",
       link |-> [attr |-> [href |-> "u5"]],
       author |-> Undefined,
       category |-> Obj(Category("c1"))]

\* sequences of distinct elements of S, of length lo..hi
SeqsOf(S, lo, hi) ==
    {s \in UNION {[1..n -> S] : n \in lo..hi} :
        \A a, b \in DOMAIN s : a # b => s[a] # s[b]}

\* result.feed.entry as xml2js delivers it with explicitArray: false:
\* absent (no entry element), one record (one element), or an array of
\* records (two elements or more); the documents of one response differ
FeedEntries == {Undefined}
               \cup {Obj(p) : p \in ArxivPaper}
               \cup {Arr(s) : s \in SeqsOf(ArxivPaper, 2, MaxPapers)}

(***************************************************************************)
(* Corpus Fetcher: the normalisation of the parsed response.               *)
(***************************************************************************)
\* a fetcher without the 'if (!entries) return []' test
NormalizeEntries_noAbsentTest(entries) ==
    IF IsArray(entries) THEN entries.val ELSE <<entries>>

\* fetchArxivPapers, from 'const entries = result.feed.entry' to its return
NormalizeEntries(entries) ==
    IF ~Truthy(entries) THEN <<>>
    ELSE IF IsArray(entries) THEN entries.val
    ELSE <<entries.val>>

\* an author normalisation that forgets to join the names of an array
AuthorNames_notJoined(author) ==
    IF IsArray(author)
    THEN Arr(Map(author.val, LAMBDA a : a.name))
    ELSE Str(author.val.name)

\* the authors string built by processArxivResponse and by upsertToPinecone
AuthorNames(author) ==
    IF IsArray(author)
    THEN Str(Join(Map(author.val, LAMBDA a : a.name), ", "))
    ELSE Str(author.val.name)

\* processArxivResponse(result), given result.feed.entry
processArxivResponse(entry) ==
    IF ~Truthy(entry) THEN <<>>
    ELSE LET entries == IF IsArray(entry) THEN entry.val ELSE <<entry.val>>
         IN  Map(entries, LAMBDA e : [id |-> e.id,
                                      title |-> e.title,
                                      summary |-> e.summary,
                                      authors |-> AuthorNames(e.author),
                                      link |-> e.link.attr.href])

(***************************************************************************)
(* Indexer: the record written for one paper.                              *)
(***************************************************************************)
\* a categories normalisation that joins the terms of an array as the
\* authors are joined
CategoryTerms_joined(category) ==
    IF IsArray(category)
    THEN Str(Join(Map(category.val, LAMBDA c : c.attr.term), ", "))
    ELSE Str(category.val.attr.term)

\* 'let categories' of the per-paper callback
CategoryTerms(category) ==
    IF IsArray(category)
    THEN Arr(Map(category.val, LAMBDA c : c.attr.term))
    ELSE Str(category.val.attr.term)

\* an Indexer that keys the record by paper and vector
IndexRecord_keyedByVector(paper, embedding) ==
    [id |-> paper.id \o "#" \o ToString(embedding),
     values |-> embedding,
     metadata |-> [title |-> paper.title,
                   abstract |-> paper.summary,
                   authors |-> AuthorNames(paper.author),
                   categories |-> CategoryTerms(paper.category),
                   published |-> paper.published]]

\* the callback throws a TypeError while it builds the record: it reads
\* paper.category.$ or paper.author.name of a property that is undefined
RecordThrows(paper) == ~Truthy(paper.category) \/ ~Truthy(paper.author)

\* the record passed to index.upsert
IndexRecord(paper, embedding) ==
    [id |-> paper.id,
     values |-> embedding,
     metadata |-> [title |-> paper.title,
                   abstract |-> paper.summary,
                   authors |-> AuthorNames(paper.author),
                   categories |-> CategoryTerms(paper.category),
                   published |-> paper.published]]

(***************************************************************************)
(* The vector index collaborator.                                          *)
(***************************************************************************)
\* topK of the similarity query
TopK == 5

\* upsert: the record replaces any record with the same identifier
IndexUpsert(idx, rec) == {r \in idx : r.id # rec.id} \cup {rec}

\* similarity of a stored vector to the question's vector, in units of 10^-5
Score(q, v) == 99996 - 10004 * (IF q < v THEN v - q ELSE q - v)

\* the orders in which the k nearest records of idx can be returned:
\* descending score, records of equal score in any order
RECURSIVE Nearest(_, _, _)
Nearest(idx, q, k) ==
    IF k = 0 \/ idx = {} THEN {<<>>}
    ELSE UNION {{<<r>> \o t : t \in Nearest(idx \ {r}, q, k - 1)} :
                r \in {x \in idx : \A y \in idx : Score(q, y.values) <= Score(q, x.values)}}

\* shapes in which one match can be delivered: metadata and score are optional
MatchShapes == {"full", "noMetadata", "noScore"}
Match(r, q, shape) ==
    [id |-> r.id,
     values |-> r.values,
     score |-> IF shape = "noScore" THEN Undefined ELSE Num(Score(q, r.values)),
     metadata |-> IF shape = "noMetadata" THEN Undefined ELSE Obj(r.metadata)]

\* queryResponse.matches: the possible answers of index.query, each match
\* delivered in one of `shapes`, at most MaxMalformed of them not in full
QueryMatches(idx, q, shapes) ==
    {[k \in 1..Len(rs) |-> Match(rs[k], q, sh[k])] :
        <<rs, sh>> \in UNION {{<<s, f>> : f \in {g \in [1..Len(s) -> shapes] :
                                  Cardinality({k \in 1..Len(s) : g[k] # "full"}) <= MaxMalformed}} :
                              s \in Nearest(idx, q, TopK)}}

(***************************************************************************)
(* Similarity Searcher and Answer Synthesizer: the pure parts.             *)
(***************************************************************************)
\* a filter that also drops the matches below a similarity of 0.9
KeepMatch_threshold(m) ==
    /\ Truthy(m.metadata)
    /\ m.score # Undefined
    /\ m.score.val > 90000

\* match => match.metadata && match.score !== undefined
KeepMatch(m) == Truthy(m.metadata) /\ m.score # Undefined

\* the RelevantPaper built from one match
RelevantPaper(m) ==
    [title |-> m.metadata.val.title,
     abstract |-> m.metadata.val.abstract,
     authors |-> m.metadata.val.authors,
     categories |-> m.metadata.val.categories,
     published |-> m.metadata.val.published,
     similarity |-> m.score.val]

\* a Searcher that keeps the first three of the filtered matches
FilterMatches_top3(matches) ==
    LET kept == Map(SelectSeq(matches, KeepMatch), RelevantPaper)
    IN  SubSeq(kept, 1, IF Len(kept) < 3 THEN Len(kept) ELSE 3)

\* queryResponse.matches.filter(...).map(...)
FilterMatches(matches) == Map(SelectSeq(matches, KeepMatch), RelevantPaper)

\* n.toFixed(4), n in units of 10^-5, the result in units of 10^-4
ToFixed4(n) == (n + 5) \div 10

\* one block of the context of generateAnswer
ContextBlock(paper) ==
    [Title |-> paper.title,
     Authors |-> paper.authors,
     Categories |-> paper.categories,
     Published |-> paper.published,
     Similarity |-> ToFixed4(paper.similarity),
     Abstract |-> paper.abstract]

\* a prompt that lists the blocks last to first
GroundedPrompt_reversed(query, relevantPapers) ==
    [kind |-> "grounded", question |-> query,
     context |-> [k \in 1..Len(relevantPapers) |->
                     ContextBlock(relevantPapers[Len(relevantPapers) + 1 - k])]]

\* the prompt of generateAnswer: the question and the blocks, in order
GroundedPrompt(query, relevantPapers) ==
    [kind |-> "grounded", question |-> query,
     context |-> Map(relevantPapers, ContextBlock)]

\* the prompt of generateNoResultsAnswer
NoResultsPrompt(query) == [kind |-> "noResults", question |-> query]

\* the prompt of extractKeywords
KeywordsPrompt(query) == [kind |-> "keywords", question |-> query]

(***************************************************************************)
(* State.                                                                  *)
(***************************************************************************)
VARIABLES
    pc,                \* the await at which each invocation of GET is suspended
    userQuery,         \* GET: const userQuery
    keywords,          \* GET: const keywords
    papers,            \* GET: const papers
    tasks,             \* upsertToPinecone: the promises of upsertPromises
    questionEmbedding, \* performVectorSearch: const questionEmbedding
    relevantPapers,    \* GET: const relevantPapers
    response,          \* the NextResponse returned by GET
    index,             \* the records of the vector index "arxiv-papers"
    called,            \* history: the stage functions GET has called, in order
    prompt,            \* history: the prompt last sent to chatModel
    feedEntry,         \* history: result.feed.entry as parsed
    matches,           \* history: queryResponse.matches as returned
    lastWrite,         \* history: the record last passed to a completed upsert
                       \* and the await GET was at when the upsert completed
    thrown,            \* history: the stage whose error GET caught and logged
    generated,         \* history: the text chatModel returned last
    searchQuery,       \* history: the search_query of the request to the API
    mounted,           \* ResearchSearch: useState mounted
    query,             \* ResearchSearch: useState query
    result,            \* ResearchSearch: useState result
    loading,           \* ResearchSearch: useState loading
    error,             \* ResearchSearch: useState error
    searches,          \* the calls of handleSearch, in the order they were made
    settledBy          \* history: the call of handleSearch that set result or
                       \* error last (0: none)

serverVars == <<pc, userQuery, keywords, papers, tasks, questionEmbedding,
                relevantPapers, response, index, called, prompt, feedEntry,
                matches, lastWrite, thrown, generated, searchQuery>>
clientVars == <<mounted, query, result, loading, error, searches, settledBy>>
vars == <<serverVars, clientVars>>

\* const userQuery = searchParams.get('query') || "Can cows grow"
DefaultQuery == "Can cows grow"
QueryOf(param) == IF Truthy(param) THEN param.val ELSE DefaultQuery

NoResponse == [status |-> 0]
\* NextResponse.json(body) and NextResponse.json(body, { status })
JsonResponse(body, status) == [status |-> status, body |-> body]

\* a catch block that hands out what the invocation has fetched so far
ErrorResponse_partial(i) ==
    [status |-> 500,
     body |-> [error |-> "An error occurred while processing the request",
               papers |-> papers[i]]]

\* the response of the catch block of GET
ErrorResponse(i) ==
    JsonResponse([error |-> "An error occurred while processing the request"], 500)

\* a success response that returns the retrieved matches as papers
AnswerResponse_matches(i, answer) ==
    [status |-> 200,
     body |-> [answer |-> answer, keywords |-> keywords[i],
               papers |-> relevantPapers[i]]]

\* the success response of the zero-results branch of GET
NoResultsResponse(i, noResultsAnswer) ==
    JsonResponse([answer |-> noResultsAnswer, keywords |-> keywords[i],
                  papers |-> <<>>], 200)

\* the success response at the end of GET
AnswerResponse(i, answer) ==
    JsonResponse([answer |-> answer, keywords |-> keywords[i], papers |-> papers[i]], 200)

\* a record left in the index by an earlier run; the vectors of old records
\* differ from each other and from those of this run
OldRecord(n) ==
    [id |-> "old" \o ToString(n),
     values |-> NumEmbeddings + n,
     metadata |-> [title |-> "old title " \o ToString(n),
                   abstract |-> "old abstract " \o ToString(n),
                   authors |-> Str("A"),
                   categories |-> Str("c1"),
                   published |-> "d0"]]

\* the index before the first invocation: empty, or holding old records
InitialIndexes == {{}, {OldRecord(n) : n \in 1..NumOldRecords}}

Init ==
    /\ pc = [i \in Invocations |-> "Start"]
    /\ userQuery = [i \in Invocations |-> ""]
    /\ keywords = [i \in Invocations |-> ""]
    /\ papers = [i \in Invocations |-> <<>>]
    /\ tasks = [i \in Invocations |-> <<>>]
    /\ questionEmbedding = [i \in Invocations |-> 0]
    /\ relevantPapers = [i \in Invocations |-> <<>>]
    /\ response = [i \in Invocations |-> NoResponse]
    /\ index \in InitialIndexes
    /\ called = [i \in Invocations |-> <<>>]
    /\ prompt = [i \in Invocations |-> <<>>]
    /\ feedEntry = [i \in Invocations |-> Null]
    /\ matches = [i \in Invocations |-> <<>>]
    /\ lastWrite = [id \in {p.id : p \in ArxivPaper} |-> Null]
    /\ thrown = [i \in Invocations |-> ""]
    /\ generated = [i \in Invocations |-> ""]
    /\ searchQuery = [i \in Invocations |-> ""]
    /\ mounted = FALSE
    /\ query = ""
    /\ result = Null
    /\ loading = FALSE
    /\ error = Null
    /\ searches = <<>>
    /\ settledBy = 0

(***************************************************************************)
(* GET, one action per await.                                              *)
(***************************************************************************)
\* GET calls a stage function and is suspended at its await
Call(i, stage, next) ==
    /\ called' = [called EXCEPT ![i] = Append(@, stage)]
    /\ pc' = [pc EXCEPT ![i] = next]

\* the stage function that is suspended at an await of GET
StageAt(at) ==
    CASE at = "Interpret" -> "extractKeywords"
      [] at = "Fetch" -> "fetchArxivPapers"
      [] at = "Index" -> "upsertToPinecone"
      [] at \in {"SearchEmbed", "SearchQuery"} -> "performVectorSearch"
      [] at = "GroundedSynthesize" -> "generateAnswer"
      [] at = "FallbackSynthesize" -> "generateNoResultsAnswer"

\* catch (error): the error is logged and the generic error response returned
Catch(i) ==
    /\ thrown' = [thrown EXCEPT ![i] = StageAt(pc[i])]
    /\ pc' = [pc EXCEPT ![i] = "Failed"]
    /\ response' = [response EXCEPT ![i] = ErrorResponse(i)]

\* GET up to 'await extractKeywords(userQuery)'
Start(i, param) ==
    /\ pc[i] = "Start"
    /\ userQuery' = [userQuery EXCEPT ![i] = QueryOf(param)]
    /\ prompt' = [prompt EXCEPT ![i] = <<KeywordsPrompt(QueryOf(param))>>]
    /\ Call(i, "extractKeywords", "Interpret")
    /\ UNCHANGED clientVars
    /\ UNCHANGED <<keywords, papers, tasks, questionEmbedding, relevantPapers,
                   response, index, feedEntry, matches, lastWrite, thrown,
                   generated, searchQuery>>

\* extractKeywords returns the generated text; GET calls fetchArxivPapers
InterpretReturn(i, text) ==
    /\ pc[i] = "Interpret"
    /\ keywords' = [keywords EXCEPT ![i] = text]
    /\ generated' = [generated EXCEPT ![i] = text]
    /\ searchQuery' = [searchQuery EXCEPT ![i] = keywords'[i]]
    /\ Call(i, "fetchArxivPapers", "Fetch")
    /\ UNCHANGED clientVars
    /\ UNCHANGED <<userQuery, papers, tasks, questionEmbedding, relevantPapers,
                   response, index, prompt, feedEntry, matches, lastWrite,
                   thrown>>

\* if (!response.ok) throw
FetchNotOk(i) ==
    /\ pc[i] = "Fetch"
    /\ Catch(i)
    /\ UNCHANGED clientVars
    /\ UNCHANGED <<userQuery, keywords, papers, tasks, questionEmbedding,
                   relevantPapers, index, called, prompt, feedEntry, matches,
                   lastWrite, generated, searchQuery>>

\* a GET without the zero-results branch
NoResults_never(ps) == FALSE

\* papers.length === 0
NoResults(ps) == Len(ps) = 0

\* upsertPromises: every callback has run up to its 'await embedContent'
UpsertPromises(ps) == [k \in 1..Len(ps) |-> [st |-> "embedding", e |-> 0]]

\* fetchArxivPapers returns; GET calls generateNoResultsAnswer or
\* upsertToPinecone
FetchReturn(i, entry) ==
    /\ pc[i] = "Fetch"
    /\ feedEntry' = [feedEntry EXCEPT ![i] = entry]
    /\ LET ps == NormalizeEntries(entry) IN
        /\ papers' = [papers EXCEPT ![i] = ps]
        /\ IF NoResults(ps)
           THEN /\ Call(i, "generateNoResultsAnswer", "FallbackSynthesize")
                /\ prompt' = [prompt EXCEPT ![i] = <<NoResultsPrompt(userQuery[i])>>]
                /\ UNCHANGED tasks
           ELSE /\ Call(i, "upsertToPinecone", "Index")
                /\ tasks' = [tasks EXCEPT ![i] = UpsertPromises(ps)]
                /\ UNCHANGED prompt
    /\ UNCHANGED clientVars
    /\ UNCHANGED <<userQuery, keywords, questionEmbedding, relevantPapers,
                   response, index, matches, lastWrite, thrown, generated,
                   searchQuery>>

\* a zero-results branch that lacks its return: GET goes on to the indexing
FallbackReturn_fallsThrough(i, text) ==
    /\ pc[i] = "FallbackSynthesize"
    /\ generated' = [generated EXCEPT ![i] = text]
    /\ Call(i, "upsertToPinecone", "Index")
    /\ UNCHANGED clientVars
    /\ UNCHANGED <<userQuery, keywords, papers, tasks, questionEmbedding,
                   relevantPapers, response, index, prompt, feedEntry, matches,
                   lastWrite, thrown, searchQuery>>

\* generateNoResultsAnswer returns; GET responds
FallbackReturn(i, text) ==
    /\ pc[i] = "FallbackSynthesize"
    /\ generated' = [generated EXCEPT ![i] = text]
    /\ response' = [response EXCEPT ![i] = NoResultsResponse(i, text)]
    /\ pc' = [pc EXCEPT ![i] = "Done"]
    /\ UNCHANGED clientVars
    /\ UNCHANGED <<userQuery, keywords, papers, tasks, questionEmbedding,
                   relevantPapers, index, called, prompt, feedEntry, matches,
                   lastWrite, thrown, searchQuery>>

(***************************************************************************)
(* upsertToPinecone: the per-paper callbacks and the join.  The callbacks  *)
(* are not cancelled when GET has left the join, so they are enabled       *)
(* whatever pc is.                                                         *)
(***************************************************************************)
SetTask(i, k, st, e) == tasks' = [tasks EXCEPT ![i][k] = [st |-> st, e |-> e]]

\* embedContent(paper.summary) returns; the callback builds the record and
\* calls index.upsert, or throws while it builds the record
EmbedReturn(i, k, e) ==
    /\ k \in DOMAIN tasks[i]
    /\ tasks[i][k].st = "embedding"
    /\ IF RecordThrows(papers[i][k])
       THEN SetTask(i, k, "threw", 0)
       ELSE SetTask(i, k, "upserting", e)
    /\ UNCHANGED clientVars
    /\ UNCHANGED <<pc, userQuery, keywords, papers, questionEmbedding,
                   relevantPapers, response, index, called, prompt, feedEntry,
                   matches, lastWrite, thrown, generated, searchQuery>>

\* embedContent(paper.summary) rejects: the promise of the callback rejects
EmbedReject(i, k) ==
    /\ k \in DOMAIN tasks[i]
    /\ tasks[i][k].st = "embedding"
    /\ SetTask(i, k, "failed", 0)
    /\ UNCHANGED clientVars
    /\ UNCHANGED <<pc, userQuery, keywords, papers, questionEmbedding,
                   relevantPapers, response, index, called, prompt, feedEntry,
                   matches, lastWrite, thrown, generated, searchQuery>>

\* index.upsert([record]) completes: the record is in the index
UpsertReturn(i, k) ==
    /\ k \in DOMAIN tasks[i]
    /\ tasks[i][k].st = "upserting"
    /\ LET rec == IndexRecord(papers[i][k], tasks[i][k].e) IN
        /\ index' = IndexUpsert(index, rec)
        /\ lastWrite' = [lastWrite EXCEPT ![papers[i][k].id] =
                             [tag |-> "object", val |-> rec, at |-> pc[i]]]
    /\ SetTask(i, k, "done", tasks[i][k].e)
    /\ UNCHANGED clientVars
    /\ UNCHANGED <<pc, userQuery, keywords, papers, questionEmbedding,
                   relevantPapers, response, called, prompt, feedEntry,
                   matches, thrown, generated, searchQuery>>

\* index.upsert([record]) rejects
UpsertReject(i, k) ==
    /\ k \in DOMAIN tasks[i]
    /\ tasks[i][k].st = "upserting"
    /\ SetTask(i, k, "failed", 0)
    /\ UNCHANGED clientVars
    /\ UNCHANGED <<pc, userQuery, keywords, papers, questionEmbedding,
                   relevantPapers, response, index, called, prompt, feedEntry,
                   matches, lastWrite, thrown, generated, searchQuery>>

\* a join that waits for every promise to settle (Promise.allSettled)
JoinFulfilled_settled(ts) ==
    \A k \in DOMAIN ts : ts[k].st \in {"done", "failed", "threw"}

\* Promise.all(upsertPromises) is fulfilled: every promise is fulfilled
JoinFulfilled(ts) == \A k \in DOMAIN ts : ts[k].st = "done"
\* a join that counts the fulfilled promises and never rejects
JoinRejected_never(ts) == FALSE

\* a join that rejects only when every promise has settled
JoinRejected_settled(ts) ==
    /\ \E k \in DOMAIN ts : ts[k].st \in {"failed", "threw"}
    /\ \A k \in DOMAIN ts : ts[k].st \in {"done", "failed", "threw"}

\* Promise.all(upsertPromises) is rejected: some promise is rejected, by a
\* collaborator call that failed or by an error thrown in the callback
JoinRejected(ts) == \E k \in DOMAIN ts : ts[k].st \in {"failed", "threw"}

\* a GET that calls upsertToPinecone without awaiting it
IndexReturn_notAwaited(i) ==
    /\ pc[i] = "Index"
    /\ Call(i, "performVectorSearch", "SearchEmbed")
    /\ UNCHANGED clientVars
    /\ UNCHANGED <<userQuery, keywords, papers, tasks, questionEmbedding,
                   relevantPapers, response, index, prompt, feedEntry, matches,
                   lastWrite, thrown, generated, searchQuery>>

\* 'await upsertToPinecone(papers)' resumes; GET calls performVectorSearch,
\* which calls embedContent(query)
IndexReturn(i) ==
    /\ pc[i] = "Index"
    /\ JoinFulfilled(tasks[i])
    /\ Call(i, "performVectorSearch", "SearchEmbed")
    /\ UNCHANGED clientVars
    /\ UNCHANGED <<userQuery, keywords, papers, tasks, questionEmbedding,
                   relevantPapers, response, index, prompt, feedEntry, matches,
                   lastWrite, thrown, generated, searchQuery>>

\* a catch that deletes the records of the papers of the failed run
IndexReject_rollback(i) ==
    /\ pc[i] = "Index"
    /\ JoinRejected(tasks[i])
    /\ Catch(i)
    /\ index' = {r \in index : \A k \in DOMAIN papers[i] : r.id # papers[i][k].id}
    /\ UNCHANGED clientVars
    /\ UNCHANGED <<userQuery, keywords, papers, tasks, questionEmbedding,
                   relevantPapers, called, prompt, feedEntry, matches,
                   lastWrite, generated, searchQuery>>

\* 'await upsertToPinecone(papers)' throws
IndexReject(i) ==
    /\ pc[i] = "Index"
    /\ JoinRejected(tasks[i])
    /\ Catch(i)
    /\ UNCHANGED clientVars
    /\ UNCHANGED <<userQuery, keywords, papers, tasks, questionEmbedding,
                   relevantPapers, index, called, prompt, feedEntry, matches,
                   lastWrite, generated, searchQuery>>

(***************************************************************************)
(* performVectorSearch and generateAnswer.                                 *)
(***************************************************************************)
\* embedContent(query) returns; performVectorSearch calls index.query
SearchEmbedReturn(i, e) ==
    /\ pc[i] = "SearchEmbed"
    /\ questionEmbedding' = [questionEmbedding EXCEPT ![i] = e]
    /\ pc' = [pc EXCEPT ![i] = "SearchQuery"]
    /\ UNCHANGED clientVars
    /\ UNCHANGED <<userQuery, keywords, papers, tasks, relevantPapers, response,
                   index, called, prompt, feedEntry, matches, lastWrite, thrown,
                   generated, searchQuery>>

\* index.query returns; performVectorSearch returns the filtered matches and
\* GET calls generateAnswer, which sends its prompt to chatModel
SearchQueryReturn(i, shapes) ==
    /\ pc[i] = "SearchQuery"
    /\ \E ms \in QueryMatches(index, questionEmbedding[i], shapes) :
        /\ matches' = [matches EXCEPT ![i] = ms]
        /\ relevantPapers' = [relevantPapers EXCEPT ![i] = FilterMatches(ms)]
        /\ prompt' = [prompt EXCEPT ![i] =
                          <<GroundedPrompt(userQuery[i], FilterMatches(ms))>>]
    /\ Call(i, "generateAnswer", "GroundedSynthesize")
    /\ UNCHANGED clientVars
    /\ UNCHANGED <<userQuery, keywords, papers, tasks, questionEmbedding,
                   response, index, feedEntry, lastWrite, thrown, generated,
                   searchQuery>>

\* generateAnswer returns; GET responds
GroundedReturn(i, text) ==
    /\ pc[i] = "GroundedSynthesize"
    /\ generated' = [generated EXCEPT ![i] = text]
    /\ response' = [response EXCEPT ![i] = AnswerResponse(i, text)]
    /\ pc' = [pc EXCEPT ![i] = "Done"]
    /\ UNCHANGED clientVars
    /\ UNCHANGED <<userQuery, keywords, papers, tasks, questionEmbedding,
                   relevantPapers, index, called, prompt, feedEntry, matches,
                   lastWrite, thrown, searchQuery>>

\* the awaits of GET whose collaborator call can reject (the join of the
\* indexing stage rejects through IndexReject)
AwaitedCalls == {"Interpret", "Fetch", "SearchEmbed", "SearchQuery",
                 "GroundedSynthesize", "FallbackSynthesize"}

\* the awaited call rejects (generateContent, fetch, response.text,
\* parseStringPromise, embedContent, index.query): GET catches
CallReject(i) ==
    /\ pc[i] \in AwaitedCalls
    /\ Catch(i)
    /\ UNCHANGED clientVars
    /\ UNCHANGED <<userQuery, keywords, papers, tasks, questionEmbedding,
                   relevantPapers, index, called, prompt, feedEntry, matches,
                   lastWrite, generated, searchQuery>>

\* the steps of invocation i, the collaborators answering from the given sets
Handler(i, Params, Entries, Vectors, Shapes) ==
    \/ \E param \in Params : Start(i, param)
    \/ \E text \in GeneratedTexts("keywords") : InterpretReturn(i, text)
    \/ FetchNotOk(i)
    \/ \E entry \in Entries : FetchReturn(i, entry)
    \/ \E text \in GeneratedTexts("noResults") : FallbackReturn(i, text)
    \/ \E k \in DOMAIN tasks[i], e \in Vectors : EmbedReturn(i, k, e)
    \/ \E k \in DOMAIN tasks[i] : EmbedReject(i, k)
    \/ \E k \in DOMAIN tasks[i] : UpsertReturn(i, k)
    \/ \E k \in DOMAIN tasks[i] : UpsertReject(i, k)
    \/ IndexReturn(i)
    \/ IndexReject(i)
    \/ \E e \in Vectors : SearchEmbedReturn(i, e)
    \/ SearchQueryReturn(i, Shapes)
    \/ \E text \in GeneratedTexts("grounded") : GroundedReturn(i, text)
    \/ CallReject(i)

\* one invocation of GET
Next == Handler("r1", QueryParams, FeedEntries, Embeddings, MatchShapes)

Spec == Init /\ [][Next]_vars

\* two concurrent invocations of GET over the same index, each fetching the
\* same paper once or twice
ConcurrentEntries == {Undefined, Obj(P1), Arr(<<P1, P1>>)}
NextConcurrent ==
    \E i \in Invocations :
        Handler(i, {Null}, ConcurrentEntries, Embeddings, {"full"})

SpecConcurrent == Init /\ [][NextConcurrent]_vars

\* one invocation of GET whose fetched documents can lack author or category
AnomalousEntries == {Undefined, Obj(P1), Obj(P4), Arr(<<P1, P4>>), Arr(<<P5, P1>>)}
NextAnomalies ==
    Handler("r1", {Null}, AnomalousEntries, Embeddings, {"full"})

SpecAnomalies == Init /\ [][NextAnomalies]_vars

\* one invocation of GET in which every collaborator call that is pending
\* eventually returns or fails and every continuation that can run does run
FairEntries == {Undefined, Obj(P1), Arr(<<P1, P2>>)}
NextFair == Handler("r1", {Null}, FairEntries, Embeddings, {"full"})

SpecFair == Init /\ [][NextFair]_vars /\ WF_vars(NextFair)

(***************************************************************************)
(* The client: the ResearchSearch component of src/unnamed/part_000.  The  *)
(* state setters of one stretch of handleSearch between two awaits are     *)
(* applied together; GET is seen through the outcome of fetch.             *)
(***************************************************************************)
\* most calls of handleSearch in one behaviour
MaxSearches == 2

\* the questions of the sample cards
sampleQuestions ==
    <<"What are the best fine-tuning techniques for BERT models on domain-specific corpora like medical or legal text?",
      "How can generative adversarial networks (GANs) be used for data augmentation?",
      "What are the benefits of attention-based models over traditional ARIMA in stock price prediction?">>
\* the texts typed into the input
TypedTexts == {"typed question"}

\* the body of a success response of GET to the request for a question
ResponseData(question) ==
    [answer |-> "answer to: " \o question,
     keywords |-> "all:\"term1\" OR all:\"term2\"",
     papers |-> <<>>]

\* useEffect: setMounted(true)
Mount ==
    /\ ~mounted
    /\ mounted' = TRUE
    /\ UNCHANGED <<query, result, loading, error, searches, settledBy>>
    /\ UNCHANGED serverVars

\* Input onChange: setQuery(e.target.value)
OnChange(text) ==
    /\ mounted
    /\ query' = text
    /\ UNCHANGED <<mounted, result, loading, error, searches, settledBy>>
    /\ UNCHANGED serverVars

\* handleSearch up to 'await fetch'
handleSearch(question) ==
    /\ mounted
    /\ Len(searches) < MaxSearches
    /\ loading' = TRUE
    /\ error' = Null
    /\ query' = question
    /\ searches' = Append(searches, [at |-> "fetch", searchQuery |-> question])
    /\ UNCHANGED <<mounted, result, settledBy>>
    /\ UNCHANGED serverVars

\* Card onClick: the cards are rendered and active whatever loading is
CardClick(n) == handleSearch(sampleQuestions[n])

\* handleSubmit: the submit button is disabled while loading
handleSubmit == ~loading /\ handleSearch(query)

\* handleSearch: catch and finally
SearchCatch(c) ==
    /\ error' = Str("An error occurred while processing your request. Please try again.")
    /\ result' = Null
    /\ loading' = FALSE
    /\ settledBy' = c
    /\ searches' = [searches EXCEPT ![c].at = "done"]
    /\ UNCHANGED <<mounted, query>>
    /\ UNCHANGED serverVars

\* fetch resolves: with !response.ok handleSearch throws, else it calls
\* response.json()
FetchResolve(c, ok) ==
    /\ c \in DOMAIN searches
    /\ searches[c].at = "fetch"
    /\ IF ok
       THEN /\ searches' = [searches EXCEPT ![c].at = "json"]
            /\ UNCHANGED <<mounted, query, result, loading, error, settledBy>>
            /\ UNCHANGED serverVars
       ELSE SearchCatch(c)

\* fetch rejects
FetchFail(c) ==
    /\ c \in DOMAIN searches
    /\ searches[c].at = "fetch"
    /\ SearchCatch(c)

\* response.json() resolves: setResult(data), then finally
JsonResolve(c) ==
    /\ c \in DOMAIN searches
    /\ searches[c].at = "json"
    /\ result' = Obj(ResponseData(searches[c].searchQuery))
    /\ loading' = FALSE
    /\ settledBy' = c
    /\ searches' = [searches EXCEPT ![c].at = "done"]
    /\ UNCHANGED <<mounted, query, error>>
    /\ UNCHANGED serverVars

\* response.json() rejects
JsonFail(c) ==
    /\ c \in DOMAIN searches
    /\ searches[c].at = "json"
    /\ SearchCatch(c)

\* the component: the user's events and the continuations of handleSearch
ResearchSearch ==
    \/ Mount
    \/ \E text \in TypedTexts : OnChange(text)
    \/ \E n \in DOMAIN sampleQuestions : CardClick(n)
    \/ handleSubmit
    \/ \E c \in DOMAIN searches, ok \in BOOLEAN : FetchResolve(c, ok)
    \/ \E c \in DOMAIN searches : FetchFail(c)
    \/ \E c \in DOMAIN searches : JsonResolve(c)
    \/ \E c \in DOMAIN searches : JsonFail(c)

SpecClient == Init /\ [][ResearchSearch]_vars

TypeOK == \A i \in Invocations : pc[i] \in {"Start", "Interpret", "Fetch", "Index",
              "SearchEmbed", "SearchQuery", "GroundedSynthesize",
              "FallbackSynthesize", "Done", "Failed"}

(***************************************************************************)
(* Properties.                                                             *)
(***************************************************************************)
\* fetchArxivPapers has returned to GET
Fetched(i) == feedEntry[i] # Null
\* the stage function GET called last
LastCalled(i) == called[i][Len(called[i])]
\* the number of per-paper operations of invocation i that have completed
UpsertsDone(i) == Cardinality({k \in DOMAIN tasks[i] : tasks[i][k].st = "done"})

\* C1: whenever the fetcher has returned an empty paper list, GET has called
\* generateNoResultsAnswer and has called neither upsertToPinecone (no
\* per-paper embedding or upsert exists) nor performVectorSearch nor
\* generateAnswer.
C1_ZeroResultsShortCircuit ==
    \A i \in Invocations :
        (Fetched(i) /\ Len(papers[i]) = 0) =>
            /\ called[i] = <<"extractKeywords", "fetchArxivPapers", "generateNoResultsAnswer">>
            /\ tasks[i] = <<>>
            /\ questionEmbedding[i] = 0
            /\ matches[i] = <<>>

C1_Witness ==
    \E i \in Invocations :
        /\ Fetched(i) /\ Len(papers[i]) = 0
        /\ pc[i] = "Done"

\* C2: an invocation whose stage failed is in Failed, has started no stage
\* after the failed one, and has answered with status 500 and a body that
\* holds the generic error alone; an invocation answers with an error only
\* then, and a failed per-paper operation never lets a later stage start.
C2_StageFailureIsFatal ==
    \A i \in Invocations :
        /\ thrown[i] # "" <=> pc[i] = "Failed"
        /\ pc[i] = "Failed" =>
              /\ LastCalled(i) = thrown[i]
              /\ response[i].status = 500
              /\ DOMAIN response[i].body = {"error"}
        /\ JoinRejected(tasks[i]) => pc[i] \in {"Index", "Failed"}
        /\ pc[i] \notin {"Failed", "Done"} => response[i] = NoResponse

C2_Witness ==
    \E i \in Invocations :
        /\ pc[i] = "Failed"
        /\ thrown[i] = "generateAnswer"
        /\ Len(papers[i]) > 0
        /\ response[i].status = 500

\* C3: once upsertToPinecone has returned normally (GET has gone on to
\* performVectorSearch), each of the N per-paper operations has completed,
\* so N upserts are done; with a failed per-paper operation GET is still at
\* the join or has caught the error of upsertToPinecone.
C3_FailFastFanOut ==
    \A i \in Invocations :
        /\ (\E n \in DOMAIN called[i] : called[i][n] = "performVectorSearch") =>
              /\ Len(tasks[i]) = Len(papers[i])
              /\ UpsertsDone(i) = Len(papers[i])
        /\ JoinRejected(tasks[i]) =>
              \/ pc[i] = "Index"
              \/ pc[i] = "Failed" /\ thrown[i] = "upsertToPinecone"

C3_Witness ==
    \E i \in Invocations :
        /\ Len(papers[i]) = MaxPapers
        /\ pc[i] = "Failed" /\ thrown[i] = "upsertToPinecone"
        /\ UpsertsDone(i) = Len(papers[i]) - 1

\* C4: after a successful fetch, an absent feed.entry has given the empty
\* list and no error of the fetcher, one record has given the one-element
\* list holding it, and an array of k records has given those k records in
\* the same order; processArxivResponse yields one projection per record in
\* the same order.
C4_FetcherShapeNormalization ==
    \A i \in Invocations :
        Fetched(i) =>
            LET entry == feedEntry[i]
                projected == processArxivResponse(entry)
            IN  /\ entry.tag = "undefined" =>
                      /\ papers[i] = <<>>
                      /\ projected = <<>>
                      /\ thrown[i] # "fetchArxivPapers"
                /\ entry.tag = "object" =>
                      /\ papers[i] = <<entry.val>>
                      /\ Len(projected) = 1
                      /\ projected[1].id = entry.val.id
                /\ entry.tag = "array" =>
                      /\ Len(papers[i]) = Len(entry.val)
                      /\ \A k \in 1..Len(entry.val) : papers[i][k] = entry.val[k]
                      /\ Len(projected) = Len(entry.val)
                      /\ \A k \in 1..Len(entry.val) : projected[k].id = entry.val[k].id

C4_Witness ==
    \E i \in Invocations :
        /\ Fetched(i)
        /\ feedEntry[i].tag = "object"
        /\ papers[i] = <<feedEntry[i].val>>

\* p has one author, delivered as an object, and q has that same author
\* alone, delivered as an array
SameSingleAuthor(p, q) ==
    /\ p.author.tag = "object"
    /\ q.author.tag = "array"
    /\ q.author.val = <<p.author.val>>
\* the records of the index written for paper p
RecordsOf(p) == {r \in index : r.id = p.id}

NewRecords == index \ UNION InitialIndexes
\* the paper identifiers for which an upsert has completed
Written == {id \in DOMAIN lastWrite : lastWrite[id] # Null}

\* C6: whatever upserts have completed, in whatever order, the index holds
\* for each paper identifier written exactly one record, the one of the last
\* completed upsert for that identifier, and no record for an identifier
\* never written; the records of earlier runs stay.
C6_UpsertReplaces ==
    /\ \A id \in DOMAIN lastWrite :
          {r \in index : r.id = id} =
              IF id \in Written THEN {lastWrite[id].val} ELSE {}
    /\ Cardinality(NewRecords) = Cardinality(Written)
    /\ index \ NewRecords \in InitialIndexes

\* two invocations have each completed an upsert of the same paper, with
\* different vectors, and one record is left
C6_Witness ==
    \E i, j \in Invocations :
        \E k \in DOMAIN tasks[i], l \in DOMAIN tasks[j] :
            /\ i # j
            /\ tasks[i][k].st = "done" /\ tasks[j][l].st = "done"
            /\ papers[i][k].id = papers[j][l].id
            /\ tasks[i][k].e # tasks[j][l].e
            /\ Cardinality({r \in index : r.id = papers[i][k].id}) = 1

\* GET has called generateAnswer
Grounded(i) == \E n \in DOMAIN called[i] : called[i][n] = "generateAnswer"
\* the positions of queryResponse.matches that carry metadata and a score
Surviving(i) ==
    {k \in DOMAIN matches[i] : /\ matches[i][k].metadata.tag # "undefined"
                               /\ matches[i][k].score.tag # "undefined"}
\* the place of surviving position k among the surviving positions
Rank(i, k) == Cardinality({j \in Surviving(i) : j <= k})

\* C7: the context of the grounded prompt holds one block per surviving
\* match and no other, the block of a surviving match at the place the match
\* has among the surviving ones, so in the order of the query response; the
\* Searcher's result has the same order, and the similarities of the blocks
\* descend as the scores of the response do.
C7_RankingOrderPreserved ==
    \A i \in Invocations :
        Grounded(i) =>
            LET context == prompt[i][1].context IN
            /\ prompt[i][1].kind = "grounded"
            /\ Len(context) = Cardinality(Surviving(i))
            /\ Len(relevantPapers[i]) = Cardinality(Surviving(i))
            /\ \A k \in Surviving(i) :
                  LET m == matches[i][k]
                      n == Rank(i, k)
                  IN  /\ context[n].Title = m.metadata.val.title
                      /\ context[n].Abstract = m.metadata.val.abstract
                      /\ context[n].Similarity = ToFixed4(m.score.val)
                      /\ relevantPapers[i][n].title = m.metadata.val.title
                      /\ relevantPapers[i][n].similarity = m.score.val
            /\ \A a, b \in DOMAIN context :
                  a < b => context[a].Similarity >= context[b].Similarity

\* a match between two surviving matches of different score was dropped
C7_Witness ==
    \E i \in Invocations :
        /\ pc[i] = "GroundedSynthesize"
        /\ \E a, b, c \in DOMAIN matches[i] :
              /\ a < b /\ b < c
              /\ a \in Surviving(i) /\ c \in Surviving(i) /\ b \notin Surviving(i)
              /\ matches[i][a].score.val > matches[i][c].score.val

\* C8: a success response has status 200 and exactly the fields answer,
\* keywords (the search expression) and papers: answer is the text the
\* generation call returned last, keywords is the Interpreter output that was
\* sent to the fetcher as search_query, papers is the list the fetcher
\* returned, which is empty on the zero-results path.
C8_ResponseContents ==
    \A i \in Invocations :
        pc[i] = "Done" =>
            /\ response[i].status = 200
            /\ DOMAIN response[i].body = {"answer", "keywords", "papers"}
            /\ response[i].body.answer = generated[i]
            /\ response[i].body.keywords = searchQuery[i]
            /\ response[i].body.papers = papers[i]
            /\ response[i].body.papers = NormalizeEntries(feedEntry[i])
            /\ ~Grounded(i) => response[i].body.papers = <<>>

\* a grounded success whose papers are more than the retrieved matches
C8_Witness ==
    \E i \in Invocations :
        /\ pc[i] = "Done"
        /\ Grounded(i)
        /\ Len(response[i].body.papers) = MaxPapers
        /\ Len(relevantPapers[i]) < MaxPapers
        /\ response[i].body.keywords # response[i].body.answer

\* GET has called performVectorSearch
Searching(i) == \E n \in DOMAIN called[i] : called[i][n] = "performVectorSearch"
GroundedStages == <<"extractKeywords", "fetchArxivPapers", "upsertToPinecone",
                    "performVectorSearch", "generateAnswer">>

\* C9: with a non-empty fetch result the stages called are a prefix of
\* Interpret, Fetch, Index, Search, GroundedSynthesize, and once the Searcher
\* is called every per-paper operation of the invocation has completed and
\* every fetched paper has a record in the index.
C9_StageOrderWithJoin ==
    \A i \in Invocations :
        (Fetched(i) /\ Len(papers[i]) > 0) =>
            /\ called[i] = SubSeq(GroundedStages, 1, Len(called[i]))
            /\ Searching(i) =>
                  /\ \A k \in DOMAIN tasks[i] : tasks[i][k].st = "done"
                  /\ \A k \in DOMAIN papers[i] :
                        \E r \in index : r.id = papers[i][k].id

C9_Witness ==
    \E i \in Invocations :
        /\ pc[i] = "SearchQuery"
        /\ Len(papers[i]) = MaxPapers
        /\ papers[i][1].id # papers[i][2].id
        /\ \A k \in DOMAIN papers[i] : \E r \in index : r.id = papers[i][k].id

\* C10 (as amended): generateAnswer is called only after a non-empty fetch,
\* and its list of matches is non-empty exactly when the query response
\* holds a match with metadata and score; otherwise it is called with the
\* empty list.
C10_GroundedAfterNonEmptyFetch ==
    \A i \in Invocations :
        Grounded(i) =>
            /\ Len(papers[i]) > 0
            /\ Len(relevantPapers[i]) > 0 <=> Surviving(i) # {}
            /\ Len(prompt[i][1].context) = Len(relevantPapers[i])

\* generateAnswer was called with no match: every match was dropped
C10_Witness ==
    \E i \in Invocations :
        /\ Grounded(i)
        /\ Len(matches[i]) > 0
        /\ Len(relevantPapers[i]) = 0
        /\ prompt[i][1].context = <<>>

\* C10 (as claimed): generateAnswer is called only with a non-empty list of
\* matches.
C10_GroundedOnlyWithMatches ==
    \A i \in Invocations : Grounded(i) => Len(relevantPapers[i]) > 0

\* the number of times GET has called the stage function
TimesCalled(i, stage) ==
    Cardinality({n \in DOMAIN called[i] : called[i][n] = stage})

\* C11: an invocation never calls both generateAnswer and
\* generateNoResultsAnswer and calls neither twice; an invocation in Done has
\* called exactly one of them, exactly once; generateNoResultsAnswer is called
\* exactly when the fetcher has returned the empty list, generateAnswer only
\* when it has returned a non-empty one.
C11_ExclusiveSynthesis ==
    \A i \in Invocations :
        LET grounded == TimesCalled(i, "generateAnswer")
            fallback == TimesCalled(i, "generateNoResultsAnswer")
        IN  /\ grounded + fallback <= 1
            /\ pc[i] = "Done" => grounded + fallback = 1
            /\ fallback = 1 <=> (Fetched(i) /\ Len(papers[i]) = 0)
            /\ grounded = 1 => (Fetched(i) /\ Len(papers[i]) > 0)

\* an invocation is in Done with the grounded entry point called alone
C11_Witness ==
    \E i \in Invocations :
        /\ pc[i] = "Done"
        /\ TimesCalled(i, "generateAnswer") = 1
        /\ TimesCalled(i, "generateNoResultsAnswer") = 0
        /\ Len(papers[i]) > 0

\* C12: when performVectorSearch has returned, the query response holds at
\* most 5 matches, and the result holds, in the order of the response, one
\* entry for each match that carries metadata and a score and no entry for a
\* match that lacks either; so it has at most 5 entries, each with a
\* similarity that is the score of its match, and a dropped match has raised
\* no error in performVectorSearch.
C12_SearcherOutput ==
    \A i \in Invocations :
        Grounded(i) =>
            /\ Len(matches[i]) <= TopK
            /\ Len(relevantPapers[i]) = Cardinality(Surviving(i))
            /\ Len(relevantPapers[i]) <= TopK
            /\ \A k \in Surviving(i) :
                  relevantPapers[i][Rank(i, k)] =
                      [title |-> matches[i][k].metadata.val.title,
                       abstract |-> matches[i][k].metadata.val.abstract,
                       authors |-> matches[i][k].metadata.val.authors,
                       categories |-> matches[i][k].metadata.val.categories,
                       published |-> matches[i][k].metadata.val.published,
                       similarity |-> matches[i][k].score.val]
            /\ \A n \in DOMAIN relevantPapers[i] :
                  relevantPapers[i][n].similarity \in Int
            /\ thrown[i] # "performVectorSearch"

\* the index held more than 5 records, the response 5 matches, one of them
\* without metadata or score, and the result has the 4 others
C12_Witness ==
    \E i \in Invocations :
        /\ Grounded(i)
        /\ Cardinality(index) > TopK
        /\ Len(matches[i]) = TopK
        /\ Cardinality(Surviving(i)) = TopK - 1
        /\ Len(relevantPapers[i]) = TopK - 1

\* the terms of the categories of a paper, as the metadata API delivers them
TermsOf(p) ==
    IF p.category.tag = "array"
    THEN [k \in DOMAIN p.category.val |-> p.category.val[k].attr.term]
    ELSE <<p.category.val.attr.term>>

C14_AnomaliesDoNotAbort ==
    \A i \in Invocations :
        (pc[i] = "Failed" /\ thrown[i] = "upsertToPinecone") =>
            \E k \in DOMAIN tasks[i] : tasks[i][k].st = "failed"

\* the indexing of invocation i has failed: GET has caught the error of
\* upsertToPinecone
IndexingFailed(i) == pc[i] = "Failed" /\ thrown[i] = "upsertToPinecone"
\* the per-paper operations of invocation i whose upsert has completed
Completed(i) == {k \in DOMAIN tasks[i] : tasks[i][k].st = "done"}

\* C15: after the indexing has failed, the record of every per-paper
\* operation that completed is in the index, the index holds no other new
\* record, and the records of earlier runs are all still there: nothing is
\* deleted or written in compensation.
C15_NoRollback ==
    \A i \in Invocations :
        IndexingFailed(i) =>
            /\ \A k \in Completed(i) :
                  IndexRecord(papers[i][k], tasks[i][k].e) \in index
            /\ \A r \in NewRecords :
                  \E k \in Completed(i) : r.id = papers[i][k].id
            /\ index \ NewRecords \in InitialIndexes

\* a failed run over MaxPapers papers has left the record of one of them
C15_Witness ==
    \E i \in Invocations :
        /\ IndexingFailed(i)
        /\ Len(papers[i]) = MaxPapers
        /\ Cardinality(Completed(i)) = 1
        /\ Cardinality(NewRecords) = 1
        /\ \E k \in DOMAIN tasks[i] : tasks[i][k].st = "failed"

\* the identifiers whose last upsert completed after GET had failed
LateWrites == {id \in Written : lastWrite[id].at = "Failed"}

\* C16: the join rejects as soon as one per-paper operation has failed,
\* whatever the others are doing (GET at the join can catch at once); after
\* GET has failed, a per-paper operation that is in flight is not cancelled
\* (its collaborator call can still return), and the record of an upsert
\* that completed after the failure is in the index.
C16_EarlyJoinFailure ==
    \A i \in Invocations :
        /\ (/\ pc[i] = "Index"
            /\ \E k \in DOMAIN tasks[i] : tasks[i][k].st \in {"failed", "threw"})
              => ENABLED IndexReject(i)
        /\ pc[i] = "Failed" =>
              \A k \in DOMAIN tasks[i] :
                  /\ tasks[i][k].st = "upserting" => ENABLED UpsertReturn(i, k)
                  /\ tasks[i][k].st = "embedding" => ENABLED EmbedReject(i, k)
        /\ pc[i] = "Failed" =>
              \A id \in LateWrites : lastWrite[id].val \in index

\* GET has answered with the error and a record was written afterwards
C16_Witness ==
    \E i \in Invocations :
        /\ IndexingFailed(i)
        /\ response[i].status = 500
        /\ \E k \in Completed(i) :
              /\ papers[i][k].id \in LateWrites
              /\ IndexRecord(papers[i][k], tasks[i][k].e) \in index

\* GET has returned its response
Final == {"Done", "Failed"}

C18_NoResultsTagged ==
    \A i \in Invocations :
        (pc[i] = "Done" /\ ~Grounded(i)) =>
            /\ response[i].body.answer = generated[i]
            /\ "isBasicAnswer" \in DOMAIN response[i].body

\* the calls of handleSearch that have not run to their end
InFlight == {c \in DOMAIN searches : searches[c].at # "done"}

\* C19 (as claimed): the component never holds a non-null error and a
\* non-null result at the same time.
C19_ErrorOrResult == ~(error # Null /\ result # Null)

\* C20 (as claimed): loading is true as long as a call of handleSearch is in
\* flight, and when none is in flight any more the result or error shown was
\* set by the call made last.
C20_LatestSearchWins ==
    /\ InFlight # {} => loading
    /\ (searches # <<>> /\ InFlight = {}) => settledBy = Len(searches)

====
